---- MODULE Spec2Model ----
(***************************************************************************)
(* A model of the Mandelbrot viewer of src/src/main.rs: the interaction    *)
(* state machine (Action), the per-tick view update (zoom, center) and the *)
(* per-frame transform submitted by draw, the palette Mandelbrot::new      *)
(* builds with hsv_to_rgb and the fragment shader that colours a pixel.    *)
(*                                                                         *)
(* zoom, center, the anchors, the screen size and the matrix entries are   *)
(* f32 in the program.  They are modelled as IEEE-754 binary32 values, bit *)
(* for bit: a value is a record [s, b] holding the sign bit and the low 31 *)
(* bits (8 exponent bits, 23 fraction bits) of its encoding, and the       *)
(* arithmetic below is binary32 arithmetic with round-to-nearest-even,     *)
(* subnormals, infinities and NaN.                                         *)
(***************************************************************************)
EXTENDS Integers, Sequences, FiniteSets, TLC

(***************************************************************************)
(* binary32                                                                *)
(***************************************************************************)
Two12 == 2^12
Two22 == 2^22
Two23 == 2^23
Two24 == 2^24

\* the encoding of +infinity without its sign bit: exponent field 255, fraction 0
InfBits == 255 * Two23
\* the canonical quiet NaN (all NaNs are modelled as this one value)
NaNBits == InfBits + Two22

F32(sign, bits) == [s |-> sign, b |-> bits]
NaN == F32(0, NaNBits)
Inf(sign) == F32(sign, InfBits)
Zero(sign) == F32(sign, 0)

IsNaN(f) == f.b > InfBits
IsInf(f) == f.b = InfBits
IsZero(f) == f.b = 0
IsFinite(f) == f.b < InfBits

\* a finite value is (-1)^s * Man(f) * 2^Ex(f)
Man(f) == IF f.b \div Two23 = 0 THEN f.b % Two23 ELSE Two23 + (f.b % Two23)
Ex(f) == (IF f.b \div Two23 = 0 THEN 1 ELSE (f.b \div Two23)) - 150

Max(a, b) == IF a >= b THEN a ELSE b
Min(a, b) == IF a <= b THEN a ELSE b
Xor(a, b) == IF a = b THEN 0 ELSE 1

\* the number of bits of n >= 0
RECURSIVE Bits(_)
Bits(n) == IF n = 0 THEN 0 ELSE 1 + Bits(n \div 2)
BitLen(n) == IF n >= Two24 THEN 24 + Bits(n \div Two24) ELSE Bits(n)

\* the encoding of a rounded significand m < 2^24 at exponent e >= -149
\* (m < 2^23 only when e = -149: a subnormal); too large an exponent is infinity
Pack(sign, m, e) ==
    IF m < Two23 THEN F32(sign, m)
    ELSE IF e + 150 >= 255 THEN Inf(sign)
    ELSE F32(sign, ((e + 150) * Two23) + (m - Two23))

\* The binary32 nearest to (-1)^sign * (n + frac) * 2^e, ties to even, where
\* 0 <= n < 2^30 and frac is 0 (sticky = FALSE) or some value strictly between
\* 0 and 1 (sticky = TRUE).
Round(sign, n, sticky, e) ==
    LET te == Max(e + BitLen(n) - 24, -149)
        sh == te - e
    IN  IF sh <= 0 THEN Pack(sign, n * 2^(-sh), te)
        ELSE IF sh > 30 THEN Zero(sign)
        ELSE LET q == n \div (2^sh)
                 r == n % (2^sh)
                 half == 2^(sh - 1)
                 up == r > half \/ (r = half /\ (sticky \/ q % 2 = 1))
                 m == IF up THEN q + 1 ELSE q
             IN  IF m = Two24 THEN Pack(sign, Two23, te + 1) ELSE Pack(sign, m, te)

\* significand and exponent of a finite nonzero value, with the significand
\* shifted up to 24 bits
Shift(f) == IF f.b >= Two23 THEN 0 ELSE 24 - Bits(f.b)
NormMan(f) == Man(f) * 2^Shift(f)
NormEx(f) == Ex(f) - Shift(f)

FNeg(a) == IF IsNaN(a) THEN NaN ELSE F32(1 - a.s, a.b)

FMul(a, b) ==
    LET sign == Xor(a.s, b.s) IN
    IF IsNaN(a) \/ IsNaN(b) THEN NaN
    ELSE IF IsInf(a) \/ IsInf(b)
         THEN (IF IsZero(a) \/ IsZero(b) THEN NaN ELSE Inf(sign))
    ELSE IF IsZero(a) \/ IsZero(b) THEN Zero(sign)
    ELSE LET ma == NormMan(a)
             mb == NormMan(b)
             a1 == ma \div Two12
             a0 == ma % Two12
             b1 == mb \div Two12
             b0 == mb % Two12
             \* ma * mb = hi * 2^24 + lo, computed in 12-bit limbs
             mid == (a1 * b0) + (a0 * b1)
             losum == ((mid % Two12) * Two12) + (a0 * b0)
             lo == losum % Two24
             hi == (a1 * b1) + (mid \div Two12) + (losum \div Two24)
         IN  Round(sign, (hi * 4) + (lo \div Two22), (lo % Two22) # 0,
                   NormEx(a) + NormEx(b) + 22)

\* seven more quotient bits of a long division by d: qr = <<quotient, remainder>>
\* with remainder < d < 2^24
DivStep(qr, d) == <<(qr[1] * 128) + ((qr[2] * 128) \div d), (qr[2] * 128) % d>>

\* <<floor(n * 2^28 / d), whether the division left a remainder>>, for n, d in
\* [2^23, 2^24)
LongDiv(n, d) ==
    LET s0 == <<n \div d, n % d>>
        s1 == DivStep(s0, d)
        s2 == DivStep(s1, d)
        s3 == DivStep(s2, d)
        s4 == DivStep(s3, d)
    IN  <<s4[1], s4[2] # 0>>

FDiv(a, b) ==
    LET sign == Xor(a.s, b.s) IN
    IF IsNaN(a) \/ IsNaN(b) THEN NaN
    ELSE IF IsInf(a) THEN (IF IsInf(b) THEN NaN ELSE Inf(sign))
    ELSE IF IsInf(b) THEN Zero(sign)
    ELSE IF IsZero(b) THEN (IF IsZero(a) THEN NaN ELSE Inf(sign))
    ELSE IF IsZero(a) THEN Zero(sign)
    ELSE LET qs == LongDiv(NormMan(a), NormMan(b))
         IN  Round(sign, qs[1], qs[2], NormEx(a) - NormEx(b) - 28)

\* a + b for finite nonzero a, b with a.b >= b.b (|a| >= |b|)
AddOrdered(a, b) ==
    LET d == Ex(a) - Ex(b)
        big == Man(a) * 8
        full == Man(b) * 8
        small == IF d > 27 THEN 0 ELSE (full \div (2^d))
        sticky == IF d > 27 THEN TRUE ELSE (full % (2^d)) # 0
    IN  IF a.s = b.s THEN Round(a.s, big + small, sticky, Ex(a) - 3)
        ELSE IF big = small /\ ~sticky THEN Zero(0)
        ELSE Round(a.s, big - small - (IF sticky THEN 1 ELSE 0), sticky, Ex(a) - 3)

FAdd(a, b) ==
    IF IsNaN(a) \/ IsNaN(b) THEN NaN
    ELSE IF IsInf(a) THEN (IF IsInf(b) /\ a.s # b.s THEN NaN ELSE a)
    ELSE IF IsInf(b) THEN b
    ELSE IF IsZero(a) /\ IsZero(b) THEN Zero(IF a.s = 1 /\ b.s = 1 THEN 1 ELSE 0)
    ELSE IF IsZero(a) THEN b
    ELSE IF IsZero(b) THEN a
    ELSE IF a.b >= b.b THEN AddOrdered(a, b) ELSE AddOrdered(b, a)

FSub(a, b) == FAdd(a, FNeg(b))

\* the order of binary32: a key that is monotone in the value (-0 and +0 agree)
Key(f) == IF f.s = 0 THEN f.b ELSE -f.b
FLe(a, b) == ~IsNaN(a) /\ ~IsNaN(b) /\ Key(a) <= Key(b)
FLt(a, b) == ~IsNaN(a) /\ ~IsNaN(b) /\ Key(a) < Key(b)
FEq(a, b) == ~IsNaN(a) /\ ~IsNaN(b) /\ Key(a) = Key(b)

\* the binary32 value of an integer of magnitude below 2^24 (exact)
FromInt(n) == IF n < 0 THEN Round(1, -n, FALSE, 0) ELSE Round(0, n, FALSE, 0)

(***************************************************************************)
(* Units in the last place, used to state "equal up to rounding": the      *)
(* distance between two values counted in binary32 values.                 *)
(***************************************************************************)
Abs(n) == IF n < 0 THEN -n ELSE n
SameSign(a, b) == a.s = b.s \/ (IsZero(a) /\ IsZero(b))
Near(a, b, ulps) ==
    /\ IsFinite(a) /\ IsFinite(b)
    /\ SameSign(a, b)
    /\ Abs(a.b - b.b) <= ulps

(***************************************************************************)
(* The program's constants                                                 *)
(***************************************************************************)
NUM_COLORS == 12

\* the f32 literals of the source, by their encodings
F_0 == Zero(0)
F_0_5 == F32(0, 126 * Two23)
F_1 == F32(0, 127 * Two23)
F_4 == F32(0, 129 * Two23)
\* 1.01f32 = 0x3F8147AE = 8472494 * 2^-23
F_1_01 == F32(0, (127 * Two23) + 83886)
F_1_5 == F32(0, (127 * Two23) + Two22)
F_2 == F32(0, 128 * Two23)
F_3 == F32(0, (128 * Two23) + Two22)
F_6 == F32(0, (129 * Two23) + Two22)
F_255 == F32(0, (134 * Two23) + 8323072)

\* enum Action
Idle == [tag |-> "Idle"]
ZoomingIn(x, y) == [tag |-> "ZoomingIn", x |-> x, y |-> y]
ZoomingOut(x, y) == [tag |-> "ZoomingOut", x |-> x, y |-> y]

\* miniquad's MouseButton and TouchPhase
MouseButton == {"Left", "Right", "Middle", "Unknown"}
TouchPhase == {"Started", "Moved", "Ended", "Cancelled"}

(***************************************************************************)
(* The inputs the model draws from                                         *)
(***************************************************************************)
\* window sizes (width, height): the default 800x600 window and a tall one
Screens == {<<800, 600>>, <<600, 800>>}
DefaultScreen == <<800, 600>>
\* pointer positions (x, y) in pixels: the centre of the default window and
\* its bottom-left corner
Points == {<<400, 300>>, <<0, 600>>}
TouchIds == {0, 1}
\* zooming ticks the model lets run under Spec
MaxTicks == 2
\* zooming ticks before the button is left alone under SpecHold
HoldTicks == 6
\* the fragments shaded: the texcoords of a grid of (Grid + 1) x (Grid + 1)
\* points over [0, 1]^2, and the two that map to c = (0, 0) and c = (1, 0)
Grid == 8
\* 2/3 as an f32, 0x3F2AAAAB: (2/3) * 3 - 2 is 0 in f32
F_2_3 == F32(0, (126 * Two23) + 2796203)
TexCoords ==
    {<<FDiv(FromInt(m), FromInt(Grid)), FDiv(FromInt(n), FromInt(Grid))>> :
        m \in 0..Grid, n \in 0..Grid}
    \cup {<<F_2_3, F_0_5>>, <<F_1, F_0_5>>}
\* window sizes and pointer positions for norm_mouse_pos on its own: a
\* position is given along each side of the window as a fraction <<n, d>> of
\* its length, from one edge (0) to the other (1) by eighths, and at the thirds
NormScreens == {<<800, 600>>, <<600, 800>>, <<801, 601>>, <<1, 1>>}
Fractions == {<<n, 8>> : n \in 0..8} \cup {<<1, 3>>, <<2, 3>>}
\* pointer positions for a zoom in undone by a zoom out: those of Points and
\* the pixel next to the centre of the default window
PairPoints == Points \cup {<<401, 300>>}
\* zooming ticks the model lets run under SpecPair
PairTicks == 3

VARIABLES
    zoom,       \* Mandelbrot.zoom
    center,     \* Mandelbrot.center, <<x, y>>
    action,     \* Mandelbrot.action
    screen,     \* the window's size in pixels, <<width, height>>
    uniforms,   \* the Uniforms of the latest apply_uniforms
    pc,         \* where the event loop is: "events", or "draw" after update
    \* history, read by the properties only:
    last,       \* the callback that ran last, with its button or phase
    evt,        \* position and screen size of the latest press, move or touch
    eff,        \* the same, not counting presses of buttons other than Left, Right
    touchOnly,  \* no pointer (mouse) event has been delivered yet
    nIn,        \* ticks that ran in ZoomingIn
    nOut        \* ticks that ran in ZoomingOut

VARIABLES
    colors,        \* the RGBA bytes of the palette texture, as Mandelbrot::new builds them
    color_i,       \* the i of the loop of Mandelbrot::new
    texcoord,      \* the texcoord of the fragment shaded last, <<x, y>>
    frag_b,        \* the b the fragment shader computed for it
    gl_FragColor,  \* the colour it wrote, <<r, g, b, a>> in 1/255
    cursor,        \* the arguments of a call of norm_mouse_pos: x, y and the screen size
    normed,        \* the pair that call returned
    kept           \* history: an earlier frame, with the view and window it was drawn
                   \* for; under SpecPair, the latest two ticks

\* the variables the event loop leaves alone
aside == <<colors, color_i, texcoord, frag_b, gl_FragColor, cursor, normed, kept>>

vars == <<zoom, center, action, screen, uniforms, pc, last, evt, eff, touchOnly, nIn, nOut,
          colors, color_i, texcoord, frag_b, gl_FragColor, cursor, normed, kept>>

(***************************************************************************)
(* Mandelbrot::new: the state after construction                           *)
(***************************************************************************)
NoUniforms == [transform |-> <<>>, num_colors |-> 0]

New ==
    /\ zoom = F_1
    /\ center = <<F_0, F_0>>
    /\ action = Idle

(***************************************************************************)
(* The palette: hsv_to_rgb and the loop of Mandelbrot::new that fills the  *)
(* texture with NUM_COLORS RGBA entries                                    *)
(***************************************************************************)
\* f32 as i32: toward zero, saturating, NaN to 0
AsI32(f) ==
    IF IsNaN(f) THEN 0
    ELSE LET e == Ex(f)
             mag == IF e >= 8 THEN 2147483647
                    ELSE IF e >= 0 THEN Man(f) * 2^e
                    ELSE IF e < -24 THEN 0
                    ELSE Man(f) \div 2^(-e)
         IN  IF f.s = 0 THEN mag
             ELSE IF e >= 8 THEN (-2147483647) - 1
             ELSE -mag

\* f32 as u8: toward zero, saturating
AsU8(f) == Max(0, Min(255, AsI32(f)))

\* what stands for the result of hsv_to_rgb when it panics
Panic == <<>>

\* a slip in hsv_to_rgb: the arm of sector 5 is missing from the match
hsv_to_rgb_NoSector5(h, s, v) ==
    LET h_i == AsI32(FMul(h, F_6))
        f == FSub(FMul(h, F_6), FromInt(h_i))
        p == FMul(v, FSub(F_1, s))
        q == FMul(v, FSub(F_1, FMul(f, s)))
        t == FMul(v, FSub(F_1, FMul(FSub(F_1, f), s)))
        rgb == CASE h_i = 0 -> <<v, t, p>>
                 [] h_i = 1 -> <<q, v, p>>
                 [] h_i = 2 -> <<p, v, t>>
                 [] h_i = 3 -> <<p, q, v>>
                 [] h_i = 4 -> <<t, p, v>>
                 [] OTHER -> Panic
    IN  IF rgb = Panic THEN Panic
        ELSE <<AsU8(FMul(rgb[1], F_255)), AsU8(FMul(rgb[2], F_255)),
               AsU8(FMul(rgb[3], F_255))>>

\* a slip in hsv_to_rgb: the channels are rounded to the nearest byte, not truncated
hsv_to_rgb_Rounds(h, s, v) ==
    LET h_i == AsI32(FMul(h, F_6))
        f == FSub(FMul(h, F_6), FromInt(h_i))
        p == FMul(v, FSub(F_1, s))
        q == FMul(v, FSub(F_1, FMul(f, s)))
        t == FMul(v, FSub(F_1, FMul(FSub(F_1, f), s)))
        rgb == CASE h_i = 0 -> <<v, t, p>>
                 [] h_i = 1 -> <<q, v, p>>
                 [] h_i = 2 -> <<p, v, t>>
                 [] h_i = 3 -> <<p, q, v>>
                 [] h_i = 4 -> <<t, p, v>>
                 [] h_i = 5 -> <<v, p, q>>
                 [] OTHER -> Panic
    IN  IF rgb = Panic THEN Panic
        ELSE <<AsU8(FAdd(FMul(rgb[1], F_255), F_0_5)),
               AsU8(FAdd(FMul(rgb[2], F_255), F_0_5)),
               AsU8(FAdd(FMul(rgb[3], F_255), F_0_5))>>

\* hsv_to_rgb(h, s, v): the three bytes it returns, or Panic
hsv_to_rgb(h, s, v) ==
    LET h_i == AsI32(FMul(h, F_6))
        f == FSub(FMul(h, F_6), FromInt(h_i))
        p == FMul(v, FSub(F_1, s))
        q == FMul(v, FSub(F_1, FMul(f, s)))
        t == FMul(v, FSub(F_1, FMul(FSub(F_1, f), s)))
        rgb == CASE h_i = 0 -> <<v, t, p>>
                 [] h_i = 1 -> <<q, v, p>>
                 [] h_i = 2 -> <<p, v, t>>
                 [] h_i = 3 -> <<p, q, v>>
                 [] h_i = 4 -> <<t, p, v>>
                 [] h_i = 5 -> <<v, p, q>>
                 [] OTHER -> Panic
    IN  IF rgb = Panic THEN Panic
        ELSE <<AsU8(FMul(rgb[1], F_255)), AsU8(FMul(rgb[2], F_255)),
               AsU8(FMul(rgb[3], F_255))>>

\* degree = i as f32 / num, the hue of the entry of index k
Degree(k) == FDiv(FromInt(k), FromInt(NUM_COLORS))

\* hsv_to_rgb(degree, 1., 1.) for each i of the loop of Mandelbrot::new,
\* evaluated once
ColorOf == [k \in 0..(NUM_COLORS - 1) |-> hsv_to_rgb(Degree(k), F_1, F_1)]

\* one pass of the loop of Mandelbrot::new: the colour of index color_i is
\* pushed with its alpha, unless hsv_to_rgb panics
NewColor ==
    /\ pc = "new"
    /\ color_i < NUM_COLORS
    /\ \E c \in {ColorOf[color_i]} :
           IF c = Panic
           THEN pc' = "panic" /\ UNCHANGED <<colors, color_i>>
           ELSE /\ colors' = colors \o c \o <<255>>
                /\ color_i' = color_i + 1
                /\ pc' = pc
    /\ UNCHANGED <<zoom, center, action, screen, uniforms>>

\* the loop is over: the texture is made of colors and the Mandelbrot is returned
NewDone ==
    /\ pc = "new"
    /\ color_i = NUM_COLORS
    /\ pc' = "events"
    /\ UNCHANGED <<zoom, center, action, screen, uniforms, colors, color_i>>

\* the colors the whole loop builds
RECURSIVE ColorsUpTo(_)
ColorsUpTo(k) ==
    IF k = 0 THEN <<>>
    ELSE ColorsUpTo(k - 1) \o ColorOf[k - 1] \o <<255>>

Palette == ColorsUpTo(NUM_COLORS)

\* f32::powi(3): v * v * v
Cube(v) == FMul(FMul(v, v), v)

\* ctx.screen_size(): the window's size as a pair of f32
SizeOf(wh) == <<FromInt(wh[1]), FromInt(wh[2])>>

\* a slip in norm_mouse_pos: powi(2) in place of powi(3)
norm_mouse_pos_Squares(size, x, y) ==
    LET dx == FSub(FDiv(x, size[1]), F_0_5)
        dy == FSub(FDiv(y, size[2]), F_0_5)
    IN  <<FMul(F_4, FMul(dx, dx)), FMul(F_4, FMul(dy, dy))>>

\* norm_mouse_pos(x, y), with size the value of ctx.screen_size()
norm_mouse_pos(size, x, y) ==
    << FMul(F_4, Cube(FSub(FDiv(x, size[1]), F_0_5))),
       FMul(F_4, Cube(FSub(FDiv(y, size[2]), F_0_5))) >>

\* norm_mouse_pos over the window sizes and pointer positions of the model,
\* evaluated once; positions are in pixels and reach the callbacks as f32
AnchorOf ==
    [wh \in Screens, p \in PairPoints |->
        norm_mouse_pos(SizeOf(wh), FromInt(p[1]), FromInt(p[2]))]

\* the coordinate at the fraction f of a side of len pixels, as an f32
Along(f, len) == FDiv(FromInt(f[1] * len), FromInt(f[2]))

\* norm_mouse_pos over NormScreens and Fractions, evaluated once
NormOf ==
    [wh \in NormScreens, fx \in Fractions, fy \in Fractions |->
        norm_mouse_pos(SizeOf(wh), Along(fx, wh[1]), Along(fy, wh[2]))]

\* a call self.norm_mouse_pos(ctx, x, y), as the callbacks make it, for the
\* position at the fractions fx, fy of the window
norm_call(fx, fy) ==
    /\ cursor' = <<[x |-> Along(fx, screen[1]), y |-> Along(fy, screen[2]),
                    size |-> SizeOf(screen), at |-> <<fx, fy>>]>>
    /\ normed' = NormOf[screen, fx, fy]
    /\ UNCHANGED <<zoom, center, action, screen, uniforms, colors, color_i>>

(***************************************************************************)
(* impl EventHandler for Mandelbrot                                        *)
(***************************************************************************)
\* a slip in update: the pan divides by the zoom of before the tick
ZoomInStep_OldZoom(z, c, x, y) ==
    [zoom |-> FMul(z, F_1_01),
     center |-> <<FSub(c[1], FDiv(x, z)), FAdd(c[2], FDiv(y, z))>>]

\* zoom and center after one update in ZoomingIn(x, y)
ZoomInStep(z, c, x, y) ==
    LET z2 == FMul(z, F_1_01)
    IN  [zoom |-> z2,
         center |-> <<FSub(c[1], FDiv(x, z2)), FAdd(c[2], FDiv(y, z2))>>]

\* 0.01f32 = 0x3C23D70A and 0.99f32 = 0x3F7D70A4
F_0_01 == F32(0, (120 * Two23) + 2348810)
F_0_99 == F32(0, (126 * Two23) + 8220836)

\* a slip in update: zooming out steps linearly, zoom -= 0.01
ZoomOutStep_Linear(z, c, x, y) ==
    LET z2 == FSub(z, F_0_01)
    IN  [zoom |-> z2,
         center |-> <<FAdd(c[1], FDiv(x, z2)), FSub(c[2], FDiv(y, z2))>>]

\* a slip in update: zooming out pans by the zoom of before the tick, which
\* undoes the pan of a zoom in
ZoomOutStep_OldZoom(z, c, x, y) ==
    [zoom |-> FDiv(z, F_1_01),
     center |-> <<FAdd(c[1], FDiv(x, z)), FSub(c[2], FDiv(y, z))>>]

\* zoom and center after one update in ZoomingOut(x, y)
ZoomOutStep(z, c, x, y) ==
    LET z2 == FDiv(z, F_1_01)
    IN  [zoom |-> z2,
         center |-> <<FAdd(c[1], FDiv(x, z2)), FSub(c[2], FDiv(y, z2))>>]

\* a slip in update: zooming out multiplies by 0.99 in place of dividing by 1.01
update_Times099 ==
    /\ CASE action.tag = "ZoomingIn" ->
              LET n == ZoomInStep(zoom, center, action.x, action.y)
              IN  zoom' = n.zoom /\ center' = n.center
         [] action.tag = "ZoomingOut" ->
              LET z2 == FMul(zoom, F_0_99)
              IN  /\ zoom' = z2
                  /\ center' = <<FAdd(center[1], FDiv(action.x, z2)),
                                 FSub(center[2], FDiv(action.y, z2))>>
         [] OTHER -> UNCHANGED <<zoom, center>>
    /\ UNCHANGED <<action, screen, uniforms>>

update ==
    /\ CASE action.tag = "ZoomingIn" ->
              LET n == ZoomInStep(zoom, center, action.x, action.y)
              IN  zoom' = n.zoom /\ center' = n.center
         [] action.tag = "ZoomingOut" ->
              LET n == ZoomOutStep(zoom, center, action.x, action.y)
              IN  zoom' = n.zoom /\ center' = n.center
         [] OTHER -> UNCHANGED <<zoom, center>>
    /\ UNCHANGED <<action, screen, uniforms>>

\* a slip in draw: the window is taken to be wide, whatever its shape
AspectScale_Wide(size) == <<FDiv(size[2], size[1]), F_1>>

\* the aspect correction of draw: (scale_x, scale_y) before the zoom is applied
AspectScale(size) ==
    LET ratio == FDiv(size[2], size[1])
    IN  IF FLe(ratio, F_1) THEN <<ratio, F_1>> ELSE <<F_1, FDiv(F_1, ratio)>>

\* AspectScale over the window sizes of the model, evaluated once
AspectOf == [wh \in Screens |-> AspectScale(SizeOf(wh))]

\* a slip in draw: scale_y *= self.zoom is left out
Transform_NoZoomY(z, c, wh) ==
    LET a == AspectOf[wh]
        scale_x == FMul(a[1], z)
        scale_y == a[2]
    IN  << scale_x, F_0, F_0, F_0,
           F_0, scale_y, F_0, F_0,
           F_0, F_0, F_1, F_0,
           FMul(scale_x, c[1]), FMul(scale_y, c[2]), F_0, F_1 >>

\* the Uniforms draw hands to apply_uniforms
Transform(z, c, wh) ==
    LET a == AspectOf[wh]
        scale_x == FMul(a[1], z)
        scale_y == FMul(a[2], z)
    IN  << scale_x, F_0, F_0, F_0,
           F_0, scale_y, F_0, F_0,
           F_0, F_0, F_1, F_0,
           FMul(scale_x, c[1]), FMul(scale_y, c[2]), F_0, F_1 >>

\* a slip in draw: while the action is Idle the uniforms of the frame before
\* are submitted again
draw_IdleSkips ==
    /\ uniforms' = IF action = Idle /\ uniforms # NoUniforms THEN uniforms
                    ELSE [transform |-> Transform(zoom, center, screen),
                          num_colors |-> NUM_COLORS]
    /\ UNCHANGED <<zoom, center, action, screen>>

draw ==
    /\ uniforms' = [transform |-> Transform(zoom, center, screen),
                    num_colors |-> NUM_COLORS]
    /\ UNCHANGED <<zoom, center, action, screen>>

\* a slip in mouse_button_down_event: a press during a zoom is ignored
mouse_button_down_event_KeepsZoom(button, x, y) ==
    LET pos == AnchorOf[screen, <<x, y>>]
    IN  /\ action' = IF action.tag # "Idle" THEN action
                     ELSE IF button = "Left" THEN ZoomingIn(pos[1], pos[2])
                     ELSE IF button = "Right" THEN ZoomingOut(pos[1], pos[2])
                     ELSE action
        /\ UNCHANGED <<zoom, center, screen, uniforms>>

\* a slip in mouse_button_down_event: a Left press applies a first zoom step at once
mouse_button_down_event_ZoomsAtOnce(button, x, y) ==
    LET pos == AnchorOf[screen, <<x, y>>]
    IN  /\ action' = IF button = "Left" THEN ZoomingIn(pos[1], pos[2])
                     ELSE IF button = "Right" THEN ZoomingOut(pos[1], pos[2])
                     ELSE action
        /\ zoom' = IF button = "Left" THEN FMul(zoom, F_1_01) ELSE zoom
        /\ UNCHANGED <<center, screen, uniforms>>

mouse_button_down_event(button, x, y) ==
    LET pos == AnchorOf[screen, <<x, y>>]
    IN  /\ action' = IF button = "Left" THEN ZoomingIn(pos[1], pos[2])
                     ELSE IF button = "Right" THEN ZoomingOut(pos[1], pos[2])
                     ELSE action
        /\ UNCHANGED <<zoom, center, screen, uniforms>>

\* a slip in mouse_button_up_event: only the Left button's release ends the zoom
mouse_button_up_event_LeftOnly(button, x, y) ==
    /\ action' = IF button = "Left" THEN Idle ELSE action
    /\ UNCHANGED <<zoom, center, screen, uniforms>>

mouse_button_up_event(button, x, y) ==
    /\ action' = Idle
    /\ UNCHANGED <<zoom, center, screen, uniforms>>

\* a slip in mouse_motion_event: a move zooms in, as touch_event's Moved does
mouse_motion_event_ZoomsIn(x, y) ==
    LET pos == AnchorOf[screen, <<x, y>>]
    IN  /\ action' = CASE action.tag = "ZoomingIn" -> ZoomingIn(pos[1], pos[2])
                       [] action.tag = "ZoomingOut" -> ZoomingIn(pos[1], pos[2])
                       [] OTHER -> action
        /\ UNCHANGED <<zoom, center, screen, uniforms>>

\* a slip in mouse_motion_event: the anchor of a zoom out does not follow the pointer
mouse_motion_event_OutStays(x, y) ==
    LET pos == AnchorOf[screen, <<x, y>>]
    IN  /\ action' = CASE action.tag = "ZoomingIn" -> ZoomingIn(pos[1], pos[2])
                       [] OTHER -> action
        /\ UNCHANGED <<zoom, center, screen, uniforms>>

\* a slip in mouse_motion_event: a move over the window starts a zoom in from Idle
mouse_motion_event_FromIdle(x, y) ==
    LET pos == AnchorOf[screen, <<x, y>>]
    IN  /\ action' = CASE action.tag = "ZoomingOut" -> ZoomingOut(pos[1], pos[2])
                       [] OTHER -> ZoomingIn(pos[1], pos[2])
        /\ UNCHANGED <<zoom, center, screen, uniforms>>

mouse_motion_event(x, y) ==
    LET pos == AnchorOf[screen, <<x, y>>]
    IN  /\ action' = CASE action.tag = "ZoomingIn" -> ZoomingIn(pos[1], pos[2])
                       [] action.tag = "ZoomingOut" -> ZoomingOut(pos[1], pos[2])
                       [] OTHER -> action
        /\ UNCHANGED <<zoom, center, screen, uniforms>>

\* touch_event with Moved handled as mouse_motion_event handles a move
touch_event_MovedKeeps(phase, id, x, y) ==
    LET pos == AnchorOf[screen, <<x, y>>]
    IN  /\ action' = CASE phase = "Started" -> ZoomingIn(pos[1], pos[2])
                       [] phase = "Moved" /\ action.tag = "ZoomingIn" ->
                              ZoomingIn(pos[1], pos[2])
                       [] phase = "Moved" /\ action.tag = "ZoomingOut" ->
                              ZoomingOut(pos[1], pos[2])
                       [] phase = "Moved" -> action
                       [] OTHER -> Idle
        /\ UNCHANGED <<zoom, center, screen, uniforms>>

touch_event(phase, id, x, y) ==
    LET pos == AnchorOf[screen, <<x, y>>]
    IN  /\ action' = CASE phase = "Started" -> ZoomingIn(pos[1], pos[2])
                       [] phase = "Moved" -> ZoomingIn(pos[1], pos[2])
                       [] OTHER -> Idle
        /\ UNCHANGED <<zoom, center, screen, uniforms>>

\* the window is resized: ctx.screen_size() returns the new size from now on
resize(size) ==
    /\ screen' = size
    /\ UNCHANGED <<zoom, center, action, uniforms>>

(***************************************************************************)
(* SHADER_FRAGMENT.  highp floats are taken to be binary32.  A colour is   *)
(* <<r, g, b, a>> in 1/255: vec4(0, 0, 0, 1) is <<0, 0, 0, 255>>, and a    *)
(* texel of the RGBA8 palette texture is its four bytes.                   *)
(***************************************************************************)
max_iterations == 500
cxmin == FNeg(F_2)
cxmax == F_1
cymin == FNeg(F_1_5)
cymax == F_1_5
frag_scale_x == FSub(cxmax, cxmin)
frag_scale_y == FSub(cymax, cymin)

square_complex(c) ==
    <<FSub(FMul(c[1], c[1]), FMul(c[2], c[2])), FMul(FMul(F_2, c[1]), c[2])>>

\* vec2 c of main, for the texcoord tc
FragC(tc) ==
    <<FAdd(FMul(tc[1], frag_scale_x), cxmin), FAdd(FMul(tc[2], frag_scale_y), cymin)>>

\* One pass of the for loop of main.  st holds z, i and b; once b is set
\* (break) or i has reached max_iterations the loop is over and st stays.
FragPass(c, st) ==
    IF st.b # -1 \/ st.i >= max_iterations THEN st
    ELSE IF FLt(F_4, FAdd(FMul(st.z[1], st.z[1]), FMul(st.z[2], st.z[2])))
         THEN [st EXCEPT !.b = st.i]
    ELSE LET sq == square_complex(st.z)
         IN  [z |-> <<FAdd(sq[1], c[1]), FAdd(sq[2], c[2])>>, i |-> st.i + 1, b |-> -1]

\* n passes of the loop, run as two halves one after the other
RECURSIVE FragPasses(_, _, _)
FragPasses(c, st, n) ==
    IF n = 0 \/ st.b # -1 THEN st
    ELSE IF n = 1 THEN FragPass(c, st)
    ELSE FragPasses(c, FragPasses(c, st, n \div 2), n - (n \div 2))

\* b as main has it when it chooses the colour
FragB(tc) ==
    LET st == FragPasses(FragC(tc), [z |-> <<F_0, F_0>>, i |-> 0, b |-> -1],
                         max_iterations)
    IN  IF st.b = -1 THEN max_iterations ELSE st.b

\* FragB over the texcoords of the model, evaluated once
EscapeOf == [tc \in TexCoords |-> FragB(tc)]

\* floor(x * n) of the exact product, for a finite x >= 0 with x * n < 2^31
FloorTimes(x, n) ==
    IF Ex(x) >= 0 THEN (Man(x) * n) * 2^Ex(x)
    ELSE IF Ex(x) < -30 THEN 0
    ELSE (Man(x) * n) \div 2^(-Ex(x))

\* The texels texture2D(tex, vec2(x, 0.5)) may return from a texture of the
\* given width under FilterMode::Nearest: the texel floor(x * width), where
\* OpenGL leaves the precision of the product to the implementation: exact,
\* or rounded to an f32.
TexelsAt(x, width) ==
    { Min(width - 1, FloorTimes(x, width)),
      Min(width - 1, AsI32(FMul(x, FromInt(width)))) }

\* the RGBA entry of index k of the palette texture
Texel(tex, k) == <<tex[(4 * k) + 1], tex[(4 * k) + 2], tex[(4 * k) + 3], tex[(4 * k) + 4]>>

\* float x of main
FragX(b, num_colors) ==
    FDiv(FromInt(b - ((b \div num_colors) * num_colors)), FromInt(num_colors))

\* the colours main may write for b
FragColors(b, num_colors, tex) ==
    IF b = max_iterations THEN {<<0, 0, 0, 255>>}
    ELSE {Texel(tex, k) : k \in TexelsAt(FragX(b, num_colors), Len(tex) \div 4)}

\* main of the fragment shader runs for a fragment of the quad of the latest
\* draw call
frag_main(tc) ==
    /\ uniforms # NoUniforms
    /\ texcoord' = tc
    /\ frag_b' = EscapeOf[tc]
    /\ gl_FragColor' \in FragColors(frag_b', uniforms.num_colors, colors)
    /\ UNCHANGED <<zoom, center, action, screen, uniforms, colors, color_i>>

(***************************************************************************)
(* The event loop.  miniquad runs the callbacks one at a time on one       *)
(* thread: it delivers the pending input events in any number and order,   *)
(* then calls update and, right after it, draw.  Each step below is one    *)
(* callback, with the history it leaves.                                   *)
(***************************************************************************)
Hist(op, arg) == [op |-> op, arg |-> arg]
At(p) == [x |-> p[1], y |-> p[2], size |-> screen]
NoEvent == [x |-> 0, y |-> 0, size |-> <<0, 0>>]

\* nothing shaded, no call of norm_mouse_pos on its own, no frame kept
Apart ==
    /\ texcoord = <<>>
    /\ frag_b = -1
    /\ gl_FragColor = <<>>
    /\ cursor = <<>>
    /\ normed = <<>>
    /\ kept = <<>>

Init ==
    /\ New
    /\ colors = Palette
    /\ color_i = NUM_COLORS
    /\ Apart
    /\ screen = DefaultScreen
    /\ uniforms = NoUniforms
    /\ pc = "events"
    /\ last = Hist("new", "")
    /\ evt = NoEvent
    /\ eff = NoEvent
    /\ touchOnly = TRUE
    /\ nIn = 0
    /\ nOut = 0

Count ==
    /\ nIn' = IF action.tag = "ZoomingIn" THEN nIn + 1 ELSE nIn
    /\ nOut' = IF action.tag = "ZoomingOut" THEN nOut + 1 ELSE nOut

Tick ==
    /\ pc = "events"
    /\ UNCHANGED aside
    /\ action.tag # "Idle" => nIn + nOut < MaxTicks
    /\ update
    /\ pc' = "draw"
    /\ Count
    /\ last' = Hist("update", "")
    /\ UNCHANGED <<evt, eff, touchOnly>>

Frame ==
    /\ pc = "draw"
    /\ UNCHANGED aside
    /\ draw
    /\ pc' = "events"
    /\ last' = Hist("draw", "")
    /\ UNCHANGED <<evt, eff, touchOnly, nIn, nOut>>

PointerDown(button, p) ==
    /\ pc = "events"
    /\ UNCHANGED aside
    /\ mouse_button_down_event(button, p[1], p[2])
    /\ last' = Hist("mouse_button_down_event", button)
    /\ evt' = At(p)
    /\ eff' = IF button \in {"Left", "Right"} THEN At(p) ELSE eff
    /\ touchOnly' = FALSE
    /\ UNCHANGED <<pc, nIn, nOut>>

PointerUp(button, p) ==
    /\ pc = "events"
    /\ UNCHANGED aside
    /\ mouse_button_up_event(button, p[1], p[2])
    /\ last' = Hist("mouse_button_up_event", "")
    /\ touchOnly' = FALSE
    /\ UNCHANGED <<pc, evt, eff, nIn, nOut>>

PointerMove(p) ==
    /\ pc = "events"
    /\ UNCHANGED aside
    /\ mouse_motion_event(p[1], p[2])
    /\ last' = Hist("mouse_motion_event", "")
    /\ evt' = At(p)
    /\ eff' = At(p)
    /\ touchOnly' = FALSE
    /\ UNCHANGED <<pc, nIn, nOut>>

Touch(phase, id, p) ==
    /\ pc = "events"
    /\ UNCHANGED aside
    /\ touch_event(phase, id, p[1], p[2])
    /\ last' = Hist("touch_event", phase)
    /\ evt' = At(p)
    /\ eff' = At(p)
    /\ UNCHANGED <<pc, touchOnly, nIn, nOut>>

Resize(wh) ==
    /\ pc = "events"
    /\ UNCHANGED aside
    /\ wh # screen
    /\ resize(wh)
    /\ last' = Hist("resize", "")
    /\ UNCHANGED <<pc, evt, eff, touchOnly, nIn, nOut>>

Next ==
    \/ Tick
    \/ Frame
    \/ \E button \in MouseButton, p \in Points : PointerDown(button, p)
    \/ \E button \in MouseButton, p \in Points : PointerUp(button, p)
    \/ \E p \in Points : PointerMove(p)
    \/ \E phase \in TouchPhase, id \in TouchIds, p \in Points : Touch(phase, id, p)
    \/ \E wh \in Screens : Resize(wh)

Spec == Init /\ [][Next]_vars

(***************************************************************************)
(* A long hold.  The pointer stays at the centre of the default window     *)
(* (anchor (0, 0), so center stays (0, 0)); the user presses and releases  *)
(* freely until HoldTicks zooming ticks have run and then leaves the       *)
(* button as it is, for as many frames as it takes zoom to stop changing.  *)
(* The tick counters stop at HoldTicks + 1 each: more than HoldTicks.      *)
(***************************************************************************)
Centre == <<400, 300>>

CountHold ==
    IF action.tag = "Idle" THEN UNCHANGED <<nIn, nOut>>
    ELSE IF nIn + nOut < HoldTicks THEN Count
    ELSE nIn' = HoldTicks + 1 /\ nOut' = HoldTicks + 1

HoldTick ==
    /\ pc = "events"
    /\ UNCHANGED aside
    /\ update
    /\ pc' = "draw"
    /\ CountHold
    /\ last' = Hist("update", "")
    /\ UNCHANGED <<evt, eff, touchOnly>>

HoldDown(button) ==
    /\ nIn + nOut <= HoldTicks
    /\ PointerDown(button, Centre)

HoldUp(button) ==
    /\ nIn + nOut <= HoldTicks
    /\ PointerUp(button, Centre)

NextHold ==
    \/ HoldTick
    \/ Frame
    \/ \E button \in {"Left", "Right"} : HoldDown(button)
    \/ \E button \in {"Left", "Right"} : HoldUp(button)

SpecHold == Init /\ [][NextHold]_vars

(***************************************************************************)
(* From start to picture: Mandelbrot::new builds the palette, frames are   *)
(* drawn with the view at rest, and the fragment shader runs for the       *)
(* fragments of the quad.  The texcoords are those of a grid of            *)
(* (Grid + 1) x (Grid + 1) points over [0, 1]^2, and the two that map to   *)
(* c = (0, 0) and c = (1, 0) (TexCoords).                                  *)
(***************************************************************************)
history == <<last, evt, eff, touchOnly, nIn, nOut>>

InitRender ==
    /\ New
    /\ colors = <<>>
    /\ color_i = 0
    /\ Apart
    /\ screen = DefaultScreen
    /\ uniforms = NoUniforms
    /\ pc = "new"
    /\ last = Hist("main", "")
    /\ evt = NoEvent
    /\ eff = NoEvent
    /\ touchOnly = TRUE
    /\ nIn = 0
    /\ nOut = 0

BuildColor ==
    /\ NewColor
    /\ UNCHANGED <<history, texcoord, frag_b, gl_FragColor, cursor, normed, kept>>

Built ==
    /\ NewDone
    /\ last' = Hist("new", "")
    /\ UNCHANGED <<evt, eff, touchOnly, nIn, nOut>>
    /\ UNCHANGED <<texcoord, frag_b, gl_FragColor, cursor, normed, kept>>

Fragment(tc) ==
    /\ pc = "events"
    /\ frag_main(tc)
    /\ last' = Hist("frag_main", "")
    /\ UNCHANGED <<pc, evt, eff, touchOnly, nIn, nOut, cursor, normed, kept>>

NextRender ==
    \/ BuildColor
    \/ Built
    \/ Tick
    \/ Frame
    \/ \E tc \in TexCoords : Fragment(tc)

SpecRender == InitRender /\ [][NextRender]_vars

(***************************************************************************)
(* Frames compared.  The event loop with the mouse buttons and the window  *)
(* resized, where any frame may be kept, with the view and the window it   *)
(* was drawn for, to be compared with the frames drawn after it.           *)
(***************************************************************************)
KeptFrame(other) ==
    <<[zoom |-> zoom', center |-> center', screen |-> screen', uniforms |-> uniforms',
       other |-> other]>>

\* draw, after which the frame is kept (keep) or compared with the one kept:
\* other records that a frame with other uniforms was drawn since
Shown(keep) ==
    /\ pc = "draw"
    /\ draw
    /\ pc' = "events"
    /\ last' = Hist("draw", "")
    /\ kept' = IF keep THEN KeptFrame(FALSE)
               ELSE IF kept = <<>> THEN kept
               ELSE <<[kept[1] EXCEPT !.other = @ \/ uniforms' # kept[1].uniforms]>>
    /\ UNCHANGED <<evt, eff, touchOnly, nIn, nOut>>
    /\ UNCHANGED <<colors, color_i, texcoord, frag_b, gl_FragColor, cursor, normed>>

NextFrames ==
    \/ Tick
    \/ \E keep \in BOOLEAN : Shown(keep)
    \/ \E button \in {"Left", "Right"}, p \in Points : PointerDown(button, p)
    \/ \E p \in Points : PointerUp("Left", p)
    \/ \E wh \in Screens : Resize(wh)

SpecFrames == Init /\ [][NextFrames]_vars

(***************************************************************************)
(* norm_mouse_pos on its own: the window takes the sizes of NormScreens    *)
(* and the function is called for positions all over it.                   *)
(***************************************************************************)
Locate(fx, fy) ==
    /\ pc = "events"
    /\ norm_call(fx, fy)
    /\ last' = Hist("norm_mouse_pos", "")
    /\ UNCHANGED <<pc, evt, eff, touchOnly, nIn, nOut>>
    /\ UNCHANGED <<texcoord, frag_b, gl_FragColor, kept>>

NextNorm ==
    \/ \E fx \in Fractions, fy \in Fractions : Locate(fx, fy)
    \/ \E wh \in NormScreens : Resize(wh)

SpecNorm == Init /\ [][NextNorm]_vars

(***************************************************************************)
(* A zoom undone.  The event loop with the Left and Right buttons pressed  *)
(* at the positions of PairPoints, where each tick is kept with the view   *)
(* it started from and the action it ran in.                               *)
(***************************************************************************)
KeptTick == [zoom |-> zoom, center |-> center, action |-> action]

\* update, kept as the latest of two ticks
PairTick ==
    /\ pc = "events"
    /\ action.tag # "Idle" => nIn + nOut < PairTicks
    /\ update
    /\ pc' = "draw"
    /\ Count
    /\ last' = Hist("update", "")
    /\ kept' = IF Len(kept) = 2 THEN <<kept[2], KeptTick>> ELSE Append(kept, KeptTick)
    /\ UNCHANGED <<evt, eff, touchOnly>>
    /\ UNCHANGED <<colors, color_i, texcoord, frag_b, gl_FragColor, cursor, normed>>

NextPair ==
    \/ PairTick
    \/ Frame
    \/ \E button \in {"Left", "Right"}, p \in PairPoints : PointerDown(button, p)

SpecPair == Init /\ [][NextPair]_vars

(***************************************************************************)
(* Properties                                                              *)
(***************************************************************************)
\* the anchor norm_mouse_pos gives for the event recorded in e
EvtAnchor(e) == AnchorOf[e.size, <<e.x, e.y>>]
Zooming == action.tag \in {"ZoomingIn", "ZoomingOut"}
Anchor == <<action.x, action.y>>
Released ==
    \/ last.op = "mouse_button_up_event"
    \/ last.op = "touch_event" /\ last.arg \in {"Ended", "Cancelled"}

\* C1: a pointer release (any button) or a touch Ended/Cancelled leaves the
\* action Idle, whatever it was, and an update that runs while the action is
\* Idle leaves zoom and center as they were.
C1_ReleaseThenIdleTick ==
    [][ /\ Released' => action' = Idle
        /\ (last'.op = "update" /\ action = Idle) => (zoom' = zoom /\ center' = center)
      ]_vars

\* an update has run in Idle after the view had been zoomed and released
C1_Witness ==
    /\ last.op = "update"
    /\ action = Idle
    /\ ~touchOnly
    /\ nIn > 0
    /\ zoom # F_1

\* C2: after a press of the Left button or a touch Started the action is
\* ZoomingIn(a), after a press of the Right button it is ZoomingOut(a), with a
\* the normalized position of that event, whatever the action was before.
C2_PressSetsAction ==
    /\ (last.op = "mouse_button_down_event" /\ last.arg = "Left")
          => action = ZoomingIn(EvtAnchor(evt)[1], EvtAnchor(evt)[2])
    /\ (last.op = "mouse_button_down_event" /\ last.arg = "Right")
          => action = ZoomingOut(EvtAnchor(evt)[1], EvtAnchor(evt)[2])
    /\ (last.op = "touch_event" /\ last.arg = "Started")
          => action = ZoomingIn(EvtAnchor(evt)[1], EvtAnchor(evt)[2])

\* a Right press at the corner has replaced a zoom in that had been running
C2_Witness ==
    /\ last.op = "mouse_button_down_event"
    /\ last.arg = "Right"
    /\ action.tag = "ZoomingOut"
    /\ evt.x = 0
    /\ nIn > 0
    /\ nOut = 0

\* C3: a pointer move keeps the variant of the action; in ZoomingIn or
\* ZoomingOut the anchor becomes the normalized position of the move, and
\* Idle stays Idle.
C3_MoveKeepsVariant ==
    [][ last'.op = "mouse_motion_event" =>
          action' = CASE action.tag = "ZoomingIn" ->
                           ZoomingIn(EvtAnchor(evt')[1], EvtAnchor(evt')[2])
                      [] action.tag = "ZoomingOut" ->
                           ZoomingOut(EvtAnchor(evt')[1], EvtAnchor(evt')[2])
                      [] OTHER -> Idle
      ]_vars

\* a move has taken the anchor of a running zoom out to the corner
C3_Witness ==
    /\ last.op = "mouse_motion_event"
    /\ action.tag = "ZoomingOut"
    /\ evt.x = 0
    /\ nOut > 0

\* C4: after a touch Started or Moved the action is ZoomingIn at the touch's
\* normalized position, whatever it was before, and as long as only touch
\* events have been delivered the action is never ZoomingOut.
C4_TouchAlwaysZoomsIn ==
    /\ (last.op = "touch_event" /\ last.arg \in {"Started", "Moved"})
          => action = ZoomingIn(EvtAnchor(evt)[1], EvtAnchor(evt)[2])
    /\ touchOnly => action.tag # "ZoomingOut"

\* a touch Moved has arrived after the view had been zoomed out with the mouse
C4_Witness ==
    /\ last.op = "touch_event"
    /\ last.arg = "Moved"
    /\ action.tag = "ZoomingIn"
    /\ nOut > 0
    /\ nIn = 0

\* C5: one update in ZoomingIn(ax, ay) multiplies zoom by 1.01 and moves center
\* by (-ax, +ay) / zoom'; one update in ZoomingOut(ax, ay) divides zoom by 1.01
\* and moves center by (+ax, -ay) / zoom', with zoom' the zoom after the
\* step; each update does this once.
C5_TickStep ==
    [][ last'.op = "update" =>
          CASE action.tag = "ZoomingIn" ->
                 /\ zoom' = FMul(zoom, F_1_01)
                 /\ center'[1] = FSub(center[1], FDiv(action.x, zoom'))
                 /\ center'[2] = FAdd(center[2], FDiv(action.y, zoom'))
            [] action.tag = "ZoomingOut" ->
                 /\ zoom' = FDiv(zoom, F_1_01)
                 /\ center'[1] = FAdd(center[1], FDiv(action.x, zoom'))
                 /\ center'[2] = FSub(center[2], FDiv(action.y, zoom'))
            [] OTHER -> TRUE
      ]_vars

\* two ticks have run, the latest in ZoomingOut with an anchor off the centre
C5_Witness ==
    /\ last.op = "update"
    /\ action.tag = "ZoomingOut"
    /\ ~IsZero(action.x)
    /\ nIn + nOut = 2
    /\ ~IsZero(center[1])

\* C6: zoom is strictly positive in every reachable state: it is never zero,
\* negative or NaN, however long a zoom out is held.
C6_ZoomPositive == FLt(F_0, zoom)

\* a held zoom out has taken zoom down to a subnormal value at which
\* zoom / 1.01 rounds back to zoom, so that it goes no lower
C6_Witness ==
    /\ last.op = "update"
    /\ action.tag = "ZoomingOut"
    /\ zoom.b < Two23
    /\ FDiv(zoom, F_1_01) = zoom

\* as many ZoomingIn as ZoomingOut updates have run, n of each in any order
\* (n counted up to HoldTicks / 2), and zoom is within 2n units in the last
\* place of 1, the value it started from
RoundTrip == (nIn = nOut /\ nIn + nOut <= HoldTicks) => Near(zoom, F_1, nIn + nOut)

ZoomFloor == F32(0, 51)

C8_AnchorOfLatestEvent == Zooming => Anchor = EvtAnchor(evt)

\* C8, amended: in ZoomingIn or ZoomingOut the anchor is the normalized
\* position of the latest Left or Right press, move or touch; a press of
\* another button does not replace it.
C8_AnchorOfLatestEffectiveEvent == Zooming => Anchor = EvtAnchor(eff)

\* a Middle press at another position has arrived during a zoom, whose anchor
\* is still that of the earlier event
C8_Witness ==
    /\ last.op = "mouse_button_down_event"
    /\ last.arg = "Middle"
    /\ Zooming
    /\ evt # eff
    /\ Anchor # EvtAnchor(evt)

\* the scales and the translation of the transform of the latest draw
ScaleX == uniforms.transform[1]
ScaleY == uniforms.transform[6]
TransX == uniforms.transform[13]
TransY == uniforms.transform[14]
Width == FromInt(screen[1])
Height == FromInt(screen[2])
F_0_75 == F32(0, (126 * Two23) + Two22)

\* C9: the transform draw submits has the scales (zoom * h / w, zoom) for a
\* window with h <= w and (zoom, zoom * w / h) otherwise (up to the rounding
\* of the f32 operations, 5 units in the last place), the translation
\* (sx * cx, sy * cy) and the entries of the identity elsewhere; for zoom 1,
\* center (0, 0) and an 800x600 window it is sx = 0.75, sy = 1, translation
\* (0, 0).
C9_DrawTransform ==
    last.op = "draw" =>
        /\ Len(uniforms.transform) = 16
        /\ IF screen[2] <= screen[1]
           THEN /\ Near(ScaleX, FDiv(FMul(zoom, Height), Width), 5)
                /\ ScaleY = zoom
           ELSE /\ ScaleX = zoom
                /\ Near(ScaleY, FDiv(FMul(zoom, Width), Height), 5)
        /\ TransX = FMul(ScaleX, center[1])
        /\ TransY = FMul(ScaleY, center[2])
        /\ \A i \in {2, 3, 4, 5, 7, 8, 9, 10, 12, 15} : uniforms.transform[i] = F_0
        /\ uniforms.transform[11] = F_1
        /\ uniforms.transform[16] = F_1
        /\ (zoom = F_1 /\ center = <<F_0, F_0>> /\ screen = <<800, 600>>)
              => /\ ScaleX = F_0_75
                 /\ ScaleY = F_1
                 /\ TransX = F_0
                 /\ TransY = F_0

\* a frame has been drawn in the tall window with the view zoomed and panned
C9_Witness ==
    /\ last.op = "draw"
    /\ screen = <<600, 800>>
    /\ zoom # F_1
    /\ ~IsZero(center[1])
    /\ ~IsZero(center[2])

\* C10: the scales of the submitted transform satisfy
\* sx * w = sy * h = zoom * min(w, h) (up to the rounding of the f32
\* operations, 5 units in the last place), and neither exceeds zoom.
C10_AspectKept ==
    last.op = "draw" =>
        LET side == FMul(zoom, FromInt(Min(screen[1], screen[2])))
        IN  /\ Near(FMul(ScaleX, Width), side, 5)
            /\ Near(FMul(ScaleY, Height), side, 5)
            /\ FLe(ScaleX, zoom)
            /\ FLe(ScaleY, zoom)

\* frames have been drawn zoomed in and zoomed out, in the wide window and in
\* the tall one; this one is zoomed out in the tall window
C10_Witness ==
    /\ last.op = "draw"
    /\ screen[2] > screen[1]
    /\ FLt(zoom, F_1)
    /\ FLt(ScaleY, ScaleX)

\* the orbit <<z_0, ..., z_n>> of c: z_0 = 0, z_(k+1) = z_k^2 + c, built by
\* extending a sequence that ends in z_k by n more points
OrbitNext(z, c) ==
    <<FAdd(FSub(FMul(z[1], z[1]), FMul(z[2], z[2])), c[1]),
      FAdd(FMul(F_2, FMul(z[1], z[2])), c[2])>>
RECURSIVE Extend(_, _, _)
Extend(orbit, c, n) ==
    IF Len(orbit) = 0 \/ n = 0 THEN orbit
    ELSE IF n = 1 THEN Append(orbit, OrbitNext(orbit[Len(orbit)], c))
    ELSE Extend(Extend(orbit, c, n \div 2), c, n - (n \div 2))
Orbit(c, n) == Extend(<<(<<F_0, F_0>>)>>, c, n)

\* the n below MAX_ITER with |z_n|^2 > 4, and the least of them, or MAX_ITER
Escaping(c) ==
    LET orbit == Orbit(c, max_iterations - 1)
    IN  {n \in 0..(max_iterations - 1) :
            FLt(F_4, FAdd(FMul(orbit[n + 1][1], orbit[n + 1][1]),
                          FMul(orbit[n + 1][2], orbit[n + 1][2])))}
LeastEscape(c) ==
    LET ns == Escaping(c)
    IN  IF ns = {} THEN max_iterations ELSE CHOOSE n \in ns : \A m \in ns : n <= m

Black == <<0, 0, 0, 255>>
Shaded == last.op = "frag_main"

\* the parts of C11 on b and on black: b is the least escaping n or MAX_ITER,
\* the colour is opaque black exactly when b = MAX_ITER, the fragment of
\* c = (0, 0) is black and that of c = (1, 0) has b = 3
EscapeIndexAndBlack ==
    Shaded =>
        /\ FragC(texcoord) = <<FSub(FMul(F_3, texcoord[1]), F_2),
                               FSub(FMul(F_3, texcoord[2]), F_1_5)>>
        /\ frag_b = LeastEscape(FragC(texcoord))
        /\ (gl_FragColor = Black) <=> (frag_b = max_iterations)
        /\ texcoord = <<F_2_3, F_0_5>> =>
              (FragC(texcoord) = <<F_0, F_0>> /\ gl_FragColor = Black)
        /\ texcoord = <<F_1, F_0_5>> =>
              (FragC(texcoord) = <<F_1, F_0>> /\ frag_b = 3)

\* the part of C11 on the palette: a fragment that is not black has the
\* colour of the entry of index b mod N
PaletteEntryOfB ==
    (Shaded /\ frag_b # max_iterations) =>
        /\ frag_b % NUM_COLORS \in 0..(NUM_COLORS - 1)
        /\ gl_FragColor = Texel(colors, frag_b % NUM_COLORS)

\* C11: for the texcoord (u, v), c = (3u - 2, 3v - 1.5); b is the least n
\* below MAX_ITER with |z_n|^2 > 4, or MAX_ITER; the fragment is opaque black
\* exactly when b = MAX_ITER and has the palette entry of index b mod N
\* (within [0, N)) otherwise; c = (0, 0) is black and c = (1, 0) has b = 3.
C11_EscapeColour == EscapeIndexAndBlack /\ PaletteEntryOfB

\* the hue of entry k lies in sector (6k) div N, at the fraction
\* ((6k) mod N) / N of it: the entry the sector table gives with p = 0,
\* q = 1 - f, t = f and v = 1, in exact arithmetic, each channel times 255 and
\* truncated, with alpha 255
TableEntry(k) ==
    LET r == (6 * k) % NUM_COLORS
        v == 255
        p == 0
        t == (255 * r) \div NUM_COLORS
        q == (255 * (NUM_COLORS - r)) \div NUM_COLORS
        sector == (6 * k) \div NUM_COLORS
    IN  CASE sector = 0 -> <<v, t, p, 255>>
          [] sector = 1 -> <<q, v, p, 255>>
          [] sector = 2 -> <<p, v, t, 255>>
          [] sector = 3 -> <<p, q, v, 255>>
          [] sector = 4 -> <<t, p, v, 255>>
          [] sector = 5 -> <<v, p, q, 255>>

\* C12: building the palette never panics: for every i below NUM_COLORS the
\* hue i / NUM_COLORS falls in a sector from 0 to 5, and the palette built
\* has exactly NUM_COLORS entries (of four bytes each).
C12_NoPanic ==
    /\ pc # "panic"
    /\ color_i \in 0..NUM_COLORS
    /\ color_i < NUM_COLORS => AsI32(FMul(Degree(color_i), F_6)) \in 0..5
    /\ Len(colors) = 4 * color_i
    /\ pc # "new" => Len(colors) = 4 * NUM_COLORS

\* the constructor has just returned, with the palette complete
C12_Witness ==
    /\ last.op = "new"
    /\ pc = "events"
    /\ color_i = NUM_COLORS
    /\ Len(colors) = 48

\* 1/3 as an f32, 0x3EAAAAAB
F_1_3 == F32(0, (125 * Two23) + 2796203)

\* C13: every entry of the palette is the sector-table value of its hue
\* i / N with s = v = 1 (p = 0, q = 1 - f, t = f), each channel truncated to
\* a byte (0.5 gives 127), with alpha 255 and every channel in 0..255;
\* hsv_to_rgb(0, 1, 1) is (255, 0, 0) and hsv_to_rgb(1/3, 1, 1) is (0, 255, 0).
C13_PaletteEntries ==
    /\ \A k \in 0..(color_i - 1) :
          /\ Texel(colors, k) = TableEntry(k)
          /\ \A j \in 1..4 : Texel(colors, k)[j] \in 0..255
    /\ color_i > 0 => (Degree(0) = F_0 /\ Texel(colors, 0) = <<255, 0, 0, 255>>)
    /\ color_i > 1 => Texel(colors, 1) = <<255, 127, 0, 255>>
    /\ color_i > 4 => (Degree(4) = F_1_3 /\ Texel(colors, 4) = <<0, 255, 0, 255>>)

\* the loop has pushed its last entry, of hue 11/12: (255, 0, 127)
C13_Witness ==
    /\ pc = "new"
    /\ color_i = NUM_COLORS
    /\ Texel(colors, 11) = <<255, 0, 127, 255>>

\* 4 * (f - 1/2)^3 for the fraction f = n/8 is (n - 4)^3 / 128, a value an
\* f32 holds exactly; for 1/3 and 2/3 it is -1/54 and 1/54
CubicOf(f) ==
    IF f[2] = 8 THEN FDiv(FromInt((f[1] - 4) * (f[1] - 4) * (f[1] - 4)), FromInt(128))
    ELSE FDiv(FromInt((2 * f[1]) - 3), FromInt(54))

\* C14: norm_mouse_pos maps (x, y) in a window of size (w, h) to
\* (4 (x/w - 0.5)^3, 4 (y/h - 0.5)^3): exactly so where x/w is a multiple of
\* 1/8, within 8 units in the last place at the thirds; the centre
\* (w/2, h/2) gives (0, 0) whatever the size, and for a position inside the
\* window both components lie between -0.5 and 0.5.
C14_NormCubic ==
    last.op = "norm_mouse_pos" =>
        LET call == cursor[1]
        IN  /\ \A j \in 1..2 :
                  /\ FLe(FNeg(F_0_5), normed[j]) /\ FLe(normed[j], F_0_5)
                  /\ call.at[j][2] = 8 => normed[j] = CubicOf(call.at[j])
                  /\ Near(normed[j], CubicOf(call.at[j]), 8)
            /\ (call.x = FDiv(call.size[1], F_2) /\ call.y = FDiv(call.size[2], F_2))
                  => normed = <<F_0, F_0>>

\* the function has been called for the centre (400.5, 300.5) of a window of
\* 801 x 601 pixels
C14_Witness ==
    /\ last.op = "norm_mouse_pos"
    /\ screen = <<801, 601>>
    /\ cursor[1].at = <<(<<4, 8>>), (<<4, 8>>)>>
    /\ cursor[1].x = FDiv(FromInt(801), F_2)
    /\ normed = <<F_0, F_0>>

\* the frame kept was drawn for the zoom, center and window size of now
SameView ==
    /\ kept # <<>>
    /\ kept[1].zoom = zoom
    /\ kept[1].center = center
    /\ kept[1].screen = screen

\* C15: the uniforms of a draw depend only on the zoom and center the latest
\* update left and on the window size at the draw: a frame drawn for the
\* zoom, center and size of an earlier frame has the transform of that frame,
\* whatever was drawn in between, and num_colors is NUM_COLORS in every frame.
C15_FreshTransform ==
    last.op = "draw" =>
        /\ uniforms.num_colors = NUM_COLORS
        /\ Len(uniforms.transform) = 16
        /\ SameView => uniforms = kept[1].uniforms

\* a frame is drawn in a zoom, for the view and window of a frame kept
\* earlier, after frames with other transforms
C15_Witness ==
    /\ last.op = "draw"
    /\ SameView
    /\ kept[1].other
    /\ Zooming
    /\ nIn + nOut = 2

\* C16: an input callback (pointer down, up, move, touch) leaves zoom and
\* center as they were; update leaves the action as it was; draw leaves zoom,
\* center and the action as they were.
C16_FrameEffects ==
    [][ /\ last'.op \in {"mouse_button_down_event", "mouse_button_up_event",
                          "mouse_motion_event", "touch_event"}
              => (zoom' = zoom /\ center' = center)
        /\ last'.op = "update" => action' = action
        /\ last'.op = "draw" => (zoom' = zoom /\ center' = center /\ action' = action)
      ]_vars

\* a touch is cancelled after two ticks of a zoom out held off the centre
C16_Witness ==
    /\ last.op = "touch_event"
    /\ last.arg = "Cancelled"
    /\ action = Idle
    /\ nOut = 2
    /\ ~IsZero(center[2])

\* the latest two ticks were an update in ZoomingIn and then one in
\* ZoomingOut, both with the same anchor
PairRan ==
    /\ Len(kept) = 2
    /\ kept[1].action.tag = "ZoomingIn"
    /\ kept[2].action.tag = "ZoomingOut"
    /\ kept[2].action.x = kept[1].action.x
    /\ kept[2].action.y = kept[1].action.y

\* the zoom z and the center the pair started from, and its anchor
PairZoom == kept[1].zoom
PairCenter == kept[1].center
PairAnchor == <<kept[1].action.x, kept[1].action.y>>

FAbs(f) == F32(0, f.b)
\* 1/z - 1/(1.01 z)
PairFactor ==
    FSub(FDiv(F_1, PairZoom), FDiv(F_1, FMul(F_1_01, PairZoom)))
\* the displacement claimed: (ax (1/z - 1/(1.01 z)), -ay (1/z - 1/(1.01 z)))
PairShift ==
    << FMul(PairAnchor[1], PairFactor), FNeg(FMul(PairAnchor[2], PairFactor)) >>
\* what rounding may add to a component of center: 2^-20 (|center| + |anchor / z|)
F_2_m20 == F32(0, 107 * Two23)
PairSlack(j) ==
    FMul(F_2_m20, FAdd(FAbs(PairCenter[j]), FAbs(FDiv(PairAnchor[j], PairZoom))))
\* component j of center has moved by the displacement claimed, up to rounding
ShiftedBy(j) ==
    FLe(FAbs(FSub(FSub(center[j], PairCenter[j]), PairShift[j])), PairSlack(j))
\* zoom is back at z within two units in the last place
ZoomBack == Near(zoom, PairZoom, 2)
AnchorIsZero == IsZero(PairAnchor[1]) /\ IsZero(PairAnchor[2])
CenterBack == FEq(center[1], PairCenter[1]) /\ FEq(center[2], PairCenter[2])

AtStart ==
    /\ zoom = F_1
    /\ center = <<F_0, F_0>>
    /\ action = Idle

\* the callback that ran last is a Left or Right press or a touch Started or Moved
Starts ==
    \/ last.op = "mouse_button_down_event" /\ last.arg \in {"Left", "Right"}
    \/ last.op = "touch_event" /\ last.arg \in {"Started", "Moved"}

\* C18: the initial state has zoom 1, center (0, 0) and the action Idle, and
\* from such a state every step other than a Left or Right press and a touch
\* Started or Moved (a tick, a draw, a move, a release, a touch Ended or
\* Cancelled, also a press of another button and a resize) leads to such a
\* state again.
C18_StartStays ==
    /\ AtStart
    /\ [][ (AtStart /\ ~Starts') => AtStart' ]_vars

\* a tick has run at the start values after pointer events (moves, releases,
\* presses of other buttons) and a move or a touch, without any zooming tick
C18_Witness ==
    /\ last.op = "update"
    /\ AtStart
    /\ ~touchOnly
    /\ eff # NoEvent
    /\ nIn + nOut = 0

====
